---- MODULE Spec2Model ----
(***************************************************************************)
(* Model of src/main.py: the FastAPI service that keeps user profiles in a *)
(* JSON file and brokers the Spotify OAuth2 authorization-code exchange.   *)
(*                                                                         *)
(* Requests.  Each element of Threads is a worker of the server's thread   *)
(* pool; it serves one request at a time, any handler.  A step of a        *)
(* request is one access to what the requests share: the global            *)
(* spotify_tokens, the file users.json, the clock.  The steps of different *)
(* requests interleave freely; nothing in the program locks anything.      *)
(*                                                                         *)
(* Time.  The clock `now` counts ticks, TicksPerSecond of them to a        *)
(* second.  time.sleep(1) returns no earlier than one second after it was  *)
(* called; it may return later, and every other statement may take time as *)
(* well: a statement runs at most MaxOverrun ticks after the earliest time *)
(* it can run.  The clock is observed only by a request inside the poll    *)
(* loop of get_spotify_token, so it advances only while there is one.      *)
(*                                                                         *)
(* The file.  users.json is missing, empty (opened for writing and not yet *)
(* written), holds a JSON list, indented or compact, or holds bytes that   *)
(* are no JSON document.  open(..., "w") and the json.dump that follows    *)
(* are two steps; os.path.exists is a step; open(..., "r") with json.load  *)
(* is one step.                                                            *)
(*                                                                         *)
(* Upstream.  The token endpoint and the Spotify API answer with a status   *)
(* and a body that is a JSON document or not, or cannot be reached; an     *)
(* exception no handler catches is answered with 500.                      *)
(*                                                                         *)
(* Specifications.  Spec: GET /spotify/get_token, GET /spotify/user_info,  *)
(* the callbacks and the clock.  SpecUsers: the handlers of /user and      *)
(* /users on two workers.  SpecPrefs: add_preferences on one worker; the   *)
(* callbacks and a request to the user store on the other; the clock.      *)
(* SpecSerial: the handlers of the user store, one request at a time.      *)
(***************************************************************************)
EXTENDS Integers, Sequences, FiniteSets, TLC

\* ---------------------------------------------------------------- bounds
\* MaxTime: seconds after which the clock stops.  MaxSkew: the requests
\* arrive in the first MaxSkew seconds, a /callback also from MaxSkew
\* seconds before the timeout on.
\* MaxOverrun: ticks by which a statement may be late.  MaxUsers: records in
\* users.json.  MaxPrefs: entries of a preference list that add_preferences
\* still extends.
MaxTime == 123
MaxSkew == 1
MaxOverrun == 1
MaxUsers == 2
MaxPrefs == 1

\* ------------------------------------------------------ program constants
Timeout == 120
PollInterval == 1

\* The resolution of the model's clock.
TicksPerSecond == 2

\* ------------------------------------------------------------ value sets
Threads == {"w1", "w2"}
None == "None"
NoTime == -1
Codes == {"ABC"}
Tokens == {"tok1", "tok2"}

\* The module-level dict `spotify_tokens = {}`.
EmptyDict == [k \in {} |-> None]

\* dict.get(key): the value, or None when the key is absent.
Get(d, k) == IF k \in DOMAIN d THEN d[k] ELSE None

\* An upstream answer: its status; whether its body is a JSON document, so
\* that response.json() returns it, `body`, and does not raise.
Json(status, body) == [status |-> status, json |-> TRUE, body |-> body]
NotJson(status) == [status |-> status, json |-> FALSE, body |-> EmptyDict]

\* requests.post and requests.get raise when the endpoint cannot be reached:
\* there is no answer.
ConnectionError == NotJson(0)

\* What the token endpoint may answer (requests.post at line 278): a 200 with
\* access_token, expires_in and an optional refresh_token; a 200 whose body
\* lacks access_token; a 200 whose body is no JSON; a rejection, with a JSON
\* body or without; nothing.
OkBodies ==
    {[access_token |-> "tok1", refresh_token |-> "ref1", expires_in |-> 3600],
     [access_token |-> "tok2", expires_in |-> 3600]}
TokenResponses ==
    {Json(200, body) : body \in OkBodies}
    \cup {Json(200, [expires_in |-> 3600]),
          Json(400, [error |-> "invalid_grant"]),
          NotJson(200), NotJson(502), ConnectionError}

\* What an endpoint of the Spotify API may answer besides a 200 with the
\* items asked for: a rejection, with a JSON body or without; a 200 whose
\* body is no JSON or lacks the items; nothing.
ApiFailures ==
    {Json(401, [error |-> "invalid_token"]), NotJson(401),
     Json(200, [error |-> "x"]), NotJson(200), ConnectionError}

NoResponse == Json(0, EmptyDict)
NoBody == [name |-> None, email |-> None]

\* The reply of a request: status code, the token returned by
\* get_spotify_token, the credential returned by /callback, for a 408 the
\* ticks between line 317 and the line 320 that raised, and what get_user,
\* get_user_list and get_user_info return.
NoResult ==
    [status |-> 0, body |-> None, cred |-> EmptyDict, waited |-> NoTime,
     data |-> << >>]
Reply(status) == [NoResult EXCEPT !.status = status]

\* The locals of a request.  `next` is the statement that follows the
\* check_file_integrity call the request is in; `before` is the list the file
\* last held in full when the request opened it for writing (history).
NoFrame ==
    [response |-> NoResponse, user_id |-> 0, user |-> NoBody, id |-> 0,
     users |-> << >>, access_token |-> None, track_info |-> << >>,
     top_tracks |-> << >>, next |-> "-", before |-> << >>]

NotSeen == "-"
NotUnblocked == [at |-> NoTime, pc |-> "-"]

VARIABLES
    spotify_tokens,  \* the credential store (global dict)
    now,             \* time.time(), in ticks
    pc,              \* per thread: the statement it is at
    op,              \* per thread: the handler it runs
    frame,           \* per thread: the locals of its request
    start_time,      \* per thread: local start_time of get_spotify_token
    due,             \* per thread: the earliest time its statement can run
    opened,          \* per thread: webbrowser.open calls of its request
    result,          \* per thread: the reply of its last finished request
    file,            \* users.json: its state, "missing", "empty", "indented",
                     \* "compact" or "corrupt", and the bytes it holds
    users,           \* the list users.json holds (<< >> unless it holds one)
    seen,            \* per thread: what line 312 found in the store, "empty"
                     \* or the access_token held (history)
    unblocked        \* per thread: when, and at which statement of the
                     \* request, a callback filled the store while the
                     \* request was polling within its timeout (history)

vars == <<spotify_tokens, now, pc, op, frame, start_time, due, opened, result,
          file, users, seen, unblocked>>

\* ------------------------------------------------------------- requests

Free(w) == pc[w] \in {"idle", "done"}
InFlight(w) == ~Free(w)

\* The request of w is in the poll loop of lines 319-325.
InLoop(w) == pc[w] \in {"while", "timeout", "sleep"}

\* The statement of w can run.
At(w, p) == pc[w] = p /\ now >= due[w]

\* A worker takes a request of handler h, with locals f, to statement p.
Call(w, h, f, p) ==
    /\ Free(w)
    /\ pc' = [pc EXCEPT ![w] = p]
    /\ op' = [op EXCEPT ![w] = h]
    /\ frame' = [frame EXCEPT ![w] = f]
    /\ start_time' = [start_time EXCEPT ![w] = NoTime]
    /\ due' = [due EXCEPT ![w] = now]
    /\ opened' = [opened EXCEPT ![w] = 0]
    /\ result' = [result EXCEPT ![w] = NoResult]
    /\ seen' = [seen EXCEPT ![w] = NotSeen]
    /\ unblocked' = [unblocked EXCEPT ![w] = NotUnblocked]
    /\ UNCHANGED <<spotify_tokens, now, file, users>>

\* The request of w goes on to statement p.
Goto(w, p) ==
    /\ pc' = [pc EXCEPT ![w] = p]
    /\ due' = [due EXCEPT ![w] = now]

\* The request of w is answered with r.
Finish(w, r) ==
    /\ pc' = [pc EXCEPT ![w] = "done"]
    /\ due' = [due EXCEPT ![w] = NoTime]
    /\ start_time' = [start_time EXCEPT ![w] = NoTime]
    /\ frame' = [frame EXCEPT ![w] = NoFrame]
    /\ unblocked' = [unblocked EXCEPT ![w] = NotUnblocked]
    /\ result' = [result EXCEPT ![w] = r]

\* ------------------------------------------------------------- /callback

\* Mutant of NewCredential: the new fields merged into the old credential, a
\* missing refresh_token keeping the old one.
MergedCredential(old, token_data) ==
    [access_token |-> token_data["access_token"],
     refresh_token |-> IF "refresh_token" \in DOMAIN token_data
                       THEN token_data["refresh_token"]
                       ELSE Get(old, "refresh_token"),
     expires_in |-> token_data["expires_in"]]

\* Lines 282-286: the new credential, built from the response alone.
NewCredential(old, token_data) ==
    [access_token |-> token_data["access_token"],
     refresh_token |-> Get(token_data, "refresh_token"),
     expires_in |-> token_data["expires_in"]]

\* Lines 283 and 285 raise KeyError when the key is missing.
HasTokenKeys(token_data) ==
    {"access_token", "expires_in"} \subseteq DOMAIN token_data

\* The requests other than /callback arrive in the first MaxSkew seconds;
\* a /callback arrives then, or while a request polls for the credential
\* and its timeout is no further than MaxSkew seconds away or has passed.
MayArrive == now <= MaxSkew * TicksPerSecond
CallbackMayArrive ==
    \/ MayArrive
    \/ /\ now >= (Timeout - MaxSkew) * TicksPerSecond
       /\ \E v \in Threads : InLoop(v)

\* A request arrives: GET /callback?code=...
CallCallback(w, code) ==
    /\ CallbackMayArrive
    /\ Call(w, "callback", NoFrame, "post")

\* An upstream call and the response.json() that follows it on either
\* branch (lines 278-280 and 292, 340-342 and 357, 384-386 and 398, 425-427
\* and 440): 200 when the answer is a 200 with a JSON body;
\* the status the request is answered with otherwise, the upstream status
\* when HTTPException is raised, 500 when the call or response.json() raises.
Fetched(response) ==
    IF response.status = 0 \/ ~response.json THEN 500 ELSE response.status

\* Lines 278-280 and 289-293: the exchange with the token endpoint, which
\* answers `response`.
Post(w, response) ==
    /\ At(w, "post")
    /\ IF Fetched(response) = 200
       THEN /\ frame' = [frame EXCEPT ![w].response = response]
            /\ Goto(w, "assign")
            /\ UNCHANGED <<start_time, result, unblocked>>
       ELSE Finish(w, Reply(Fetched(response)))
    /\ UNCHANGED <<spotify_tokens, now, op, opened, file, users, seen>>

\* Lines 282-286: spotify_tokens = {...}.  A missing key raises KeyError
\* before the assignment; the unhandled exception is answered with 500.
\* A request polling within its timeout when the store is filled is noted in
\* `unblocked`.
Assign(w) ==
    /\ At(w, "assign")
    /\ IF HasTokenKeys(frame[w].response.body)
       THEN /\ spotify_tokens' = NewCredential(spotify_tokens, frame[w].response.body)
            /\ Goto(w, "return")
            /\ unblocked' =
                 [v \in Threads |->
                    IF /\ InLoop(v)
                       /\ unblocked[v] = NotUnblocked
                       /\ now - start_time[v] <= Timeout * TicksPerSecond
                    THEN [at |-> now, pc |-> pc[v]]
                    ELSE unblocked[v]]
            /\ UNCHANGED <<start_time, result, frame>>
       ELSE /\ Finish(w, Reply(500))
            /\ UNCHANGED spotify_tokens
    /\ UNCHANGED <<now, op, opened, file, users, seen>>

\* Line 288: return spotify_tokens, the global as it is now.
Return(w) ==
    /\ At(w, "return")
    /\ Finish(w, [Reply(200) EXCEPT !.cred = spotify_tokens])
    /\ UNCHANGED <<spotify_tokens, now, op, opened, file, users, seen>>

\* ---------------------------------------------------- get_spotify_token

\* `not spotify_tokens` (lines 312 and 319): a dict is falsy when empty.
IsEmpty(d) == DOMAIN d = {}

\* Mutant of TimedOut: >= for >.
TimedOutInclusive(t, start) == t - start >= Timeout * TicksPerSecond

\* Line 320: time.time() - start_time > timeout.
TimedOut(t, start) == t - start > Timeout * TicksPerSecond

\* Mutant of SleepUntil: the interval doubled.
SleepTwice(t) == t + 2 * PollInterval * TicksPerSecond

\* Line 325: time.sleep(1) called at t returns no earlier than this.
SleepUntil(t) == t + PollInterval * TicksPerSecond

\* Mutant of OpenBrowser: a single-flight guard, only the first waiter opens.
OpenBrowserOnce(w) ==
    IF \E v \in Threads \ {w} : InLoop(v) THEN opened[w] ELSE opened[w] + 1

\* Line 314: webbrowser.open(auth_url), once per request that reaches it.
OpenBrowser(w) == opened[w] + 1

\* A request arrives: GET /spotify/get_token.
CallGetToken(w) ==
    /\ MayArrive
    /\ Call(w, "get_spotify_token", NoFrame, "if")

\* A request arrives: GET /spotify/user_info.  Line 446 calls
\* get_spotify_token: the request runs lines 312-327.
CallGetUserInfo(w) ==
    /\ MayArrive
    /\ Call(w, "get_user_info", NoFrame, "if")

\* Mutant of FirstBranch: the authorization flow started unconditionally.
AlwaysOpen(d) == "open"

\* Line 312: the branch taken, into line 313 or on to line 327.
FirstBranch(d) == IF IsEmpty(d) THEN "open" ELSE "read"

\* Line 312: if not spotify_tokens.
IfEmpty(w) ==
    /\ At(w, "if")
    /\ Goto(w, FirstBranch(spotify_tokens))
    /\ seen' = [seen EXCEPT ![w] = IF IsEmpty(spotify_tokens) THEN "empty"
                                   ELSE spotify_tokens["access_token"]]
    /\ UNCHANGED <<spotify_tokens, now, op, frame, start_time, opened, result,
                   file, users, unblocked>>

\* Lines 313-317: open the authorization URL, note the start time.
OpenUrl(w) ==
    /\ At(w, "open")
    /\ opened' = [opened EXCEPT ![w] = OpenBrowser(w)]
    /\ start_time' = [start_time EXCEPT ![w] = now]
    /\ Goto(w, "while")
    /\ UNCHANGED <<spotify_tokens, now, op, frame, result, file, users, seen, unblocked>>

\* Line 319: while not spotify_tokens.
WhileEmpty(w) ==
    /\ At(w, "while")
    /\ Goto(w, IF IsEmpty(spotify_tokens) THEN "timeout" ELSE "read")
    /\ UNCHANGED <<spotify_tokens, now, op, frame, start_time, opened, result,
                   file, users, seen, unblocked>>

\* Lines 320-325: raise 408 once the timeout has elapsed, else call
\* time.sleep(1).
CheckTimeout(w) ==
    /\ At(w, "timeout")
    /\ IF TimedOut(now, start_time[w])
       THEN Finish(w, [Reply(408) EXCEPT !.waited = now - start_time[w]])
       ELSE /\ pc' = [pc EXCEPT ![w] = "sleep"]
            /\ due' = [due EXCEPT ![w] = SleepUntil(now)]
            /\ UNCHANGED <<result, start_time, frame, unblocked>>
    /\ UNCHANGED <<spotify_tokens, now, op, opened, file, users, seen>>

\* Line 325 returns: the sleep is over.
Wake(w) ==
    /\ At(w, "sleep")
    /\ Goto(w, "while")
    /\ UNCHANGED <<spotify_tokens, now, op, frame, start_time, opened, result,
                   file, users, seen, unblocked>>

\* Mutant of StoredToken: the wrong key.
StoredTokenWrongKey(d) == d["refresh_token"]

\* Line 327: spotify_tokens["access_token"].
StoredToken(d) == d["access_token"]

\* Lines 327-329: read the token from the store and return it.
ReadToken(w) ==
    /\ At(w, "read")
    /\ op[w] = "get_spotify_token"
    /\ Finish(w, [Reply(200) EXCEPT !.body = StoredToken(spotify_tokens)])
    /\ UNCHANGED <<spotify_tokens, now, op, opened, file, users, seen>>

\* Lines 327-329 with 189 or 446: access_token = get_spotify_token(), in
\* add_preferences and in get_user_info; line 191 or the dict of line 448
\* follows.
TokenAcquired(w) ==
    /\ At(w, "read")
    /\ op[w] \in {"add_preferences", "get_user_info"}
    /\ Goto(w, IF op[w] = "add_preferences" THEN "track" ELSE "top_tracks")
    /\ frame' = [frame EXCEPT ![w].access_token = StoredToken(spotify_tokens)]
    /\ start_time' = [start_time EXCEPT ![w] = NoTime]
    /\ unblocked' = [unblocked EXCEPT ![w] = NotUnblocked]
    /\ UNCHANGED <<spotify_tokens, now, op, opened, result, file, users, seen>>

\* ---------------------------------------------------------- get_user_info

\* What the top-tracks and top-artists endpoints may answer (requests.get at
\* lines 425 and 384).
TopTrackItem ==
    [name |-> "Song", artists |-> <<[name |-> "Band"]>>,
     album |-> [name |-> "Album"], popularity |-> 50]
TopArtistItem == [name |-> "Band", genres |-> <<"rock">>, popularity |-> 50]
TopTracksResponses == {Json(200, [items |-> <<TopTrackItem>>])} \cup ApiFailures
TopArtistsResponses == {Json(200, [items |-> <<TopArtistItem>>])} \cup ApiFailures

\* Lines 387-393 and 428-435: data["items"] raises KeyError when the key is
\* missing; the request is answered 500.
Listed(response) ==
    IF Fetched(response) # 200 THEN Fetched(response)
    ELSE IF "items" \in DOMAIN response.body THEN 200
    ELSE 500

\* Lines 428-436: the narrowed track records.
TopTracks(items) ==
    [i \in 1 .. Len(items) |->
       [track_name |-> items[i].name,
        artist |-> items[i].artists[1].name,
        album |-> items[i].album.name]]

\* Lines 387-394: the narrowed artist records.
TopArtists(items) ==
    [i \in 1 .. Len(items) |->
       [name |-> items[i].name, genres |-> items[i].genres]]

\* Lines 448-451: the dict get_user_info returns.
UserInfo(top_tracks, top_artists) ==
    [canciones |-> [top_tracks |-> top_tracks],
     artistas |-> [top_artists |-> top_artists]]

\* Lines 449 and 425-441: get_top_tracks(access_token); the endpoint
\* answers `response`.
GetTopTracks(w, response) ==
    /\ At(w, "top_tracks")
    /\ IF Listed(response) # 200
       THEN Finish(w, Reply(Listed(response)))
       ELSE /\ Goto(w, "top_artists")
            /\ frame' = [frame EXCEPT ![w].top_tracks = TopTracks(response.body.items)]
            /\ UNCHANGED <<start_time, result, unblocked>>
    /\ UNCHANGED <<spotify_tokens, now, op, opened, file, users, seen>>

\* Lines 450 and 384-399: get_top_artists(access_token); the endpoint
\* answers `response`; then the return of lines 448-451.
GetTopArtists(w, response) ==
    /\ At(w, "top_artists")
    /\ Finish(w, IF Listed(response) # 200 THEN Reply(Listed(response))
                 ELSE [Reply(200) EXCEPT !.data =
                         UserInfo(frame[w].top_tracks, TopArtists(response.body.items))])
    /\ UNCHANGED <<spotify_tokens, now, op, opened, file, users, seen>>

\* get_user_info after get_spotify_token has returned (lines 446-451).
GetUserInfoSteps(w) ==
    \/ TokenAcquired(w)
    \/ \E response \in TopTracksResponses : GetTopTracks(w, response)
    \/ \E response \in TopArtistsResponses : GetTopArtists(w, response)

\* One tick passes.  No statement is later than MaxOverrun ticks.
Tick ==
    /\ now < MaxTime * TicksPerSecond
    /\ \E w \in Threads : InLoop(w)
    /\ \A w \in Threads : InFlight(w) => now < due[w] + MaxOverrun
    /\ now' = now + 1
    /\ UNCHANGED <<spotify_tokens, pc, op, frame, start_time, due, opened,
                   result, file, users, seen, unblocked>>

\* ------------------------------------------------------------ users.json

MaxId == MaxUsers + 1
UserIds == 1 .. MaxId
Names == {"ana"}
Emails == {"a@x.org", "b@x.org"}

\* A preference given by the client.  A str entry is written [text |-> s], to
\* tell it from a dict entry.
TextPreferences == {<<[text |-> "rock"]>>}

\* The request body of create_user and update_user (class User, lines 44-47):
\* name and email, and preferences when the client sends them.
UserInputs ==
    [name : Names, email : Emails]
    \cup [name : Names, email : {"a@x.org"}, preferences : TextPreferences]

\* user.model_dump(): unset fields take their defaults (line 47).
ModelDump(user) ==
    [name |-> user.name, email |-> user.email,
     preferences |-> IF "preferences" \in DOMAIN user THEN user.preferences ELSE << >>]

\* user.model_dump(exclude_unset=True): only the fields the client sent.
ModelDumpSet(user) == user

MaxOf(S) == CHOOSE m \in S : \A x \in S : x <= m

\* Mutant of new_id: the number of users plus one.
new_id_by_count(us) == Len(us) + 1

\* Lines 62-64: the highest id plus one, 1 for an empty list.
new_id(us) ==
    IF Len(us) > 0 THEN MaxOf({us[i].id : i \in 1 .. Len(us)}) + 1 ELSE 1

\* Line 89: any(existing_user["email"] == user.email ...).
EmailTaken(us, email) == \E i \in 1 .. Len(us) : us[i].email = email

\* Lines 84-85: user_dict = user.model_dump(); user_dict["id"] = user_id.
NewRecord(user_id, user) ==
    [id |-> user_id, name |-> ModelDump(user).name,
     email |-> ModelDump(user).email,
     preferences |-> ModelDump(user).preferences]

\* The first index holding user_id, 0 when there is none (the for loops of
\* lines 161-162 and 223-224, next() at line 120).
IndexOf(us, user_id) ==
    IF \E i \in 1 .. Len(us) : us[i].id = user_id
    THEN CHOOSE i \in 1 .. Len(us) :
            /\ us[i].id = user_id
            /\ \A j \in 1 .. (i - 1) : us[j].id # user_id
    ELSE 0

\* Line 166: users[i].update(updated_user).
DictUpdate(d, upd) ==
    [k \in DOMAIN d \cup DOMAIN upd |-> IF k \in DOMAIN upd THEN upd[k] ELSE d[k]]

\* Lines 163-166: the list update_user goes on to write (found is the index).
UpdatedUsers(us, found, user) ==
    [us EXCEPT ![found] = DictUpdate(us[found], ModelDumpSet(user))]

\* Line 225: del users[i].
DeletedUsers(us, found) ==
    SubSeq(us, 1, found - 1) \o SubSeq(us, found + 1, Len(us))

\* json.load(f) parses the file; on an empty file or on bytes that are no
\* JSON document it raises JSONDecodeError, answered with 500.
CanRead == file.state \in {"indented", "compact"}

\* The states of users.json with the bytes it holds.
Missing == [state |-> "missing", size |-> 0]
Truncated == [state |-> "empty", size |-> 0]

\* The bytes json.dump writes for one preference of this model: a str, or a
\* {"track_info": [...]} of one track, with indent=4 or without.
EntrySize(entry, fmt) ==
    IF "text" \in DOMAIN entry
    THEN (IF fmt = "indented" THEN 18 ELSE 6)
    ELSE (IF fmt = "indented" THEN 351 ELSE 129)

RECURSIVE EntriesSize(_, _)
EntriesSize(entries, fmt) ==
    IF entries = << >> THEN 0
    ELSE EntrySize(Head(entries), fmt) + 2 + EntriesSize(Tail(entries), fmt)

\* The bytes json.dump writes for one record of this model.
RecordSize(record, fmt) ==
    (IF fmt = "indented" THEN 105 ELSE 63)
    + (IF record.id < 10 THEN 0 ELSE 1)
    + (IF record.preferences = << >> THEN 0
       ELSE EntriesSize(record.preferences, fmt)
            + (IF fmt = "indented" THEN 8 ELSE -2))

RECURSIVE RecordsSize(_, _)
RecordsSize(us, fmt) ==
    IF us = << >> THEN 0
    ELSE RecordSize(Head(us), fmt) + 2 + RecordsSize(Tail(us), fmt)

\* The bytes json.dump(us, f, indent=4) and json.dump(us, f) write.
Size(us, fmt) ==
    IF us = << >> THEN 2
    ELSE RecordsSize(us, fmt) + (IF fmt = "indented" THEN 2 ELSE 0)

\* users.json holding the list us, written as fmt.
Written(us, fmt) == [state |-> fmt, size |-> Size(us, fmt)]

\* open(USER_DB, "w"): the file is created or truncated.
Truncate ==
    /\ file' = Truncated
    /\ users' = << >>

\* json.dump(us, f) and the close of f: the bytes go to the start of the
\* file the request opened.  When another request has written the file since
\* then and wrote more bytes, the rest of its bytes stays behind the list:
\* the file is no JSON document.
Dump(us, fmt) ==
    IF Size(us, fmt) >= file.size
    THEN /\ file' = Written(us, fmt)
         /\ users' = us
    ELSE /\ file' = [state |-> "corrupt", size |-> file.size]
         /\ users' = << >>

\* The request of w goes on to statement p with locals f.
Step(w, p, f) ==
    /\ Goto(w, p)
    /\ frame' = [frame EXCEPT ![w] = f]
    /\ UNCHANGED <<start_time, result, unblocked>>

\* The statements between an open(USER_DB, "w") and its json.dump.
Writing == {"check_dump", "create_dump", "update_dump", "delete_dump"}

\* The list users.json last held in full (history): the list it holds or,
\* when another request has opened it for writing and not yet written it,
\* the list it held before that.
Held(w) ==
    IF file.state = "empty" /\ \E v \in Threads \ {w} : pc[v] \in Writing
    THEN frame[CHOOSE v \in Threads \ {w} : pc[v] \in Writing].before
    ELSE users

\* Line 39 (check_file_integrity): if not os.path.exists(USER_DB).
Check(w) ==
    /\ At(w, "check")
    /\ Step(w, IF file.state = "missing" THEN "check_open" ELSE frame[w].next, frame[w])
    /\ UNCHANGED <<spotify_tokens, now, op, opened, file, users, seen>>

\* Line 40: open(USER_DB, "w").
CheckOpen(w) ==
    /\ At(w, "check_open")
    /\ Truncate
    /\ Step(w, "check_dump", [frame[w] EXCEPT !.before = Held(w)])
    /\ UNCHANGED <<spotify_tokens, now, op, opened, seen>>

\* Line 41: json.dump([], f, indent=4).
CheckDump(w) ==
    /\ At(w, "check_dump")
    /\ Dump(<< >>, "indented")
    /\ Step(w, frame[w].next, frame[w])
    /\ UNCHANGED <<spotify_tokens, now, op, opened, seen>>

\* check_file_integrity (lines 30-41).
CheckFileIntegrity(w) == Check(w) \/ CheckOpen(w) \/ CheckDump(w)

\* A request that only reads the file: it is answered with `status`, or goes
\* on to statement p with locals f.
ReadStep(w, status, p, f) ==
    /\ IF status # 200
       THEN Finish(w, Reply(status))
       ELSE Step(w, p, f)
    /\ UNCHANGED <<spotify_tokens, now, op, opened, file, users, seen>>

\* open(USER_DB, "w") at `from`, json.dump to follow at `to`.
OpenStep(w, from, to) ==
    /\ At(w, from)
    /\ Truncate
    /\ Step(w, to, [frame[w] EXCEPT !.before = Held(w)])
    /\ UNCHANGED <<spotify_tokens, now, op, opened, seen>>

\* json.dump(users, f) at `from`, and the return that follows it.
DumpStep(w, from, fmt) ==
    /\ At(w, from)
    /\ Dump(frame[w].users, fmt)
    /\ Finish(w, Reply(200))
    /\ UNCHANGED <<spotify_tokens, now, op, opened, seen>>

\* ------------------------------------------------------------ create_user

\* The store has room for one more user with an id in UserIds.
HasSpace(us) == Len(us) < MaxUsers /\ new_id(us) <= MaxId

\* A request arrives: POST /user/create.
CallCreateUser(w, user) ==
    /\ MayArrive
    /\ EmailTaken(users, user.email) \/ HasSpace(users)
    /\ Call(w, "create_user", [NoFrame EXCEPT !.user = user, !.next = "new_id"], "check")

\* Lines 60-64 and 83: user_id = new_id().
NewId(w) ==
    /\ At(w, "new_id")
    /\ ReadStep(w, IF CanRead THEN 200 ELSE 500, "create_read",
                [frame[w] EXCEPT !.id = new_id(users)])

\* Lines 87-94: read the list; 409 when the email is there, else append the
\* new record to the list read.
CreateRead(w) ==
    /\ At(w, "create_read")
    /\ ReadStep(w, IF ~CanRead THEN 500
                   ELSE IF EmailTaken(users, frame[w].user.email) THEN 409
                   ELSE 200,
                "create_open",
                [frame[w] EXCEPT
                   !.users = Append(users, NewRecord(frame[w].id, frame[w].user))])

\* Line 96: open(USER_DB, "w").
CreateOpen(w) == OpenStep(w, "create_open", "create_dump")

\* Lines 97-99: json.dump(users, f, indent=4) and the reply.
CreateDump(w) == DumpStep(w, "create_dump", "indented")

\* create_user after its check_file_integrity (lines 83-99).
CreateUserSteps(w) == NewId(w) \/ CreateRead(w) \/ CreateOpen(w) \/ CreateDump(w)

\* ------------------------------------------------------------ update_user

\* A request arrives: PUT /user/{user_id}.
CallUpdateUser(w, user_id, user) ==
    /\ MayArrive
    /\ Call(w, "update_user",
            [NoFrame EXCEPT !.user_id = user_id, !.user = user, !.next = "update_read"],
            "check")

\* Lines 159-166 and 170: read the list; 404 when no record has the id, else
\* update the first record that has it, in the list read.
UpdateRead(w) ==
    /\ At(w, "update_read")
    /\ ReadStep(w, IF ~CanRead THEN 500
                   ELSE IF IndexOf(users, frame[w].user_id) = 0 THEN 404
                   ELSE 200,
                "update_open",
                [frame[w] EXCEPT
                   !.users = UpdatedUsers(users, IndexOf(users, frame[w].user_id),
                                          frame[w].user)])

\* Line 167: open(USER_DB, "w").
UpdateOpen(w) == OpenStep(w, "update_open", "update_dump")

\* Lines 168-169: json.dump(users, f, indent=4) and the reply.
UpdateDump(w) == DumpStep(w, "update_dump", "indented")

\* update_user after its check_file_integrity (lines 159-170).
UpdateUserSteps(w) == UpdateRead(w) \/ UpdateOpen(w) \/ UpdateDump(w)

\* ------------------------------------------------------------ delete_user

\* A request arrives: DELETE /user/{user_id}.
CallDeleteUser(w, user_id) ==
    /\ MayArrive
    /\ Call(w, "delete_user",
            [NoFrame EXCEPT !.user_id = user_id, !.next = "delete_read"], "check")

\* Lines 221-225 and 229: read the list; 404 when no record has the id, else
\* delete the first record that has it, from the list read.
DeleteRead(w) ==
    /\ At(w, "delete_read")
    /\ ReadStep(w, IF ~CanRead THEN 500
                   ELSE IF IndexOf(users, frame[w].user_id) = 0 THEN 404
                   ELSE 200,
                "delete_open",
                [frame[w] EXCEPT
                   !.users = DeletedUsers(users, IndexOf(users, frame[w].user_id))])

\* Line 226: open(USER_DB, "w").
DeleteOpen(w) == OpenStep(w, "delete_open", "delete_dump")

\* Lines 227-228: json.dump(users, f) and the reply.
DeleteDump(w) == DumpStep(w, "delete_dump", "compact")

\* delete_user after its check_file_integrity (lines 221-229).
DeleteUserSteps(w) == DeleteRead(w) \/ DeleteOpen(w) \/ DeleteDump(w)

\* -------------------------------------------------------- add_preferences

\* What the search endpoint may answer (requests.get at line 340).
SearchItem ==
    [name |-> "Song", artists |-> <<[name |-> "Band"]>>,
     album |-> [name |-> "Album", release_date |-> "2020-01-01",
                album_type |-> "album"],
     popularity |-> 50]
SearchResponses ==
    {Json(200, [tracks |-> [items |-> <<SearchItem>>]])} \cup ApiFailures

\* Lines 341-357: the status get_track_info ends with; search_data["tracks"]
\* ["items"] raises KeyError when a key is missing.
Searched(response) ==
    IF Fetched(response) # 200 THEN Fetched(response)
    ELSE IF "tracks" \in DOMAIN response.body THEN 200
    ELSE 500

\* Lines 343-353: the narrowed track records.
TrackInfo(items) ==
    [i \in 1 .. Len(items) |->
       [track_name |-> items[i].name,
        artist |-> items[i].artists[1].name,
        album |-> items[i].album.name,
        release_date |-> items[i].album.release_date,
        album_type |-> items[i].album.album_type]]

\* Lines 197-198: append {"track_info": ...} to the user read by get_user;
\* User(**user) keeps name, email and preferences (User has no id field).
WithPreference(user, track_info) ==
    [name |-> user.name, email |-> user.email,
     preferences |-> Append(user.preferences, [track_info |-> track_info])]

\* The target's preference list has room for one more entry.
HasRoom(us, user_id) ==
    \A i \in 1 .. Len(us) :
        us[i].id = user_id => Len(us[i].preferences) < MaxPrefs

\* A request arrives: PUT /user/add_preferences/{user_id}/{track}/{artist}.
\* Line 189 calls get_spotify_token: the request runs lines 312-327.
CallAddPreferences(w, user_id) ==
    /\ MayArrive
    /\ HasRoom(users, user_id)
    /\ Call(w, "add_preferences", [NoFrame EXCEPT !.user_id = user_id], "if")

\* Lines 191 and 340-358: get_track_info; the search endpoint answers
\* `response`.  Line 192 calls get_user, which begins with
\* check_file_integrity (line 116).
TrackLookup(w, response) ==
    /\ At(w, "track")
    /\ ReadStep(w, Searched(response), "check",
                [frame[w] EXCEPT !.track_info = TrackInfo(response.body.tracks.items),
                                 !.next = "get_user"])

\* A request arrives: GET /user/{user_id}.
CallGetUser(w, user_id) ==
    /\ MayArrive
    /\ Call(w, "get_user", [NoFrame EXCEPT !.user_id = user_id, !.next = "get_user"],
            "check")

\* Lines 118-123: get_user reads the list, 404 when no record has the id,
\* and returns the first record that has it: to the client, or to
\* add_preferences, where (lines 197-198) the entry is appended to the
\* record and update_user is called with it, which begins with
\* check_file_integrity (line 157).
GetUser(w) ==
    /\ At(w, "get_user")
    /\ IF CanRead /\ IndexOf(users, frame[w].user_id) # 0 /\ op[w] = "get_user"
       THEN /\ Finish(w, [Reply(200) EXCEPT
                            !.data = users[IndexOf(users, frame[w].user_id)]])
            /\ UNCHANGED <<spotify_tokens, now, op, opened, file, users, seen>>
       ELSE ReadStep(w, IF ~CanRead THEN 500
                        ELSE IF IndexOf(users, frame[w].user_id) = 0 THEN 404
                        ELSE 200,
                     "check",
                     [frame[w] EXCEPT
                        !.user = WithPreference(users[IndexOf(users, frame[w].user_id)],
                                                frame[w].track_info),
                        !.next = "update_read"])

\* A request arrives: GET /users.
CallGetUserList(w) ==
    /\ MayArrive
    /\ Call(w, "get_user_list", [NoFrame EXCEPT !.next = "get_user_list"], "check")

\* Lines 137-139: get_user_list reads the list and returns it.
GetUserList(w) ==
    /\ At(w, "get_user_list")
    /\ Finish(w, IF CanRead THEN [Reply(200) EXCEPT !.data = users] ELSE Reply(500))
    /\ UNCHANGED <<spotify_tokens, now, op, opened, file, users, seen>>

\* The requests that only read users.json, after their
\* check_file_integrity.
ReadUsersSteps(w) == GetUser(w) \/ GetUserList(w)

\* add_preferences from the return of get_spotify_token to its call of
\* update_user (lines 189-198).
AddPreferencesSteps(w) ==
    \/ TokenAcquired(w)
    \/ \E response \in SearchResponses : TrackLookup(w, response)

\* ------------------------------------------------------------------ Spec
\* GET /spotify/get_token, GET /spotify/user_info and /callback on both
\* workers.

Init ==
    /\ spotify_tokens = EmptyDict
    /\ now = 0
    /\ pc = [w \in Threads |-> "idle"]
    /\ op = [w \in Threads |-> "none"]
    /\ frame = [w \in Threads |-> NoFrame]
    /\ start_time = [w \in Threads |-> NoTime]
    /\ due = [w \in Threads |-> NoTime]
    /\ opened = [w \in Threads |-> 0]
    /\ result = [w \in Threads |-> NoResult]
    /\ file = Missing
    /\ users = << >>
    /\ seen = [w \in Threads |-> NotSeen]
    /\ unblocked = [w \in Threads |-> NotUnblocked]

\* get_spotify_token up to its return (lines 312-325).
AcquireToken(w) ==
    \/ IfEmpty(w)
    \/ OpenUrl(w)
    \/ WhileEmpty(w)
    \/ CheckTimeout(w)
    \/ Wake(w)

TokenWaiter(w) ==
    \/ CallGetToken(w)
    \/ CallGetUserInfo(w)
    \/ AcquireToken(w)
    \/ ReadToken(w)
    \/ GetUserInfoSteps(w)

CallbackHandler(w) ==
    \/ \E code \in Codes : CallCallback(w, code)
    \/ \E response \in TokenResponses : Post(w, response)
    \/ Assign(w)
    \/ Return(w)

Next ==
    \/ \E w \in Threads : TokenWaiter(w)
    \/ \E w \in Threads : CallbackHandler(w)
    \/ Tick

Spec == Init /\ [][Next]_vars

\* ------------------------------------------------------------- SpecUsers
\* Two requests to the handlers of /user and /users, one on each worker, on
\* a users.json that is missing or that create_user has written.

StoredUsers ==
    {<<[id |-> 1, name |-> "ana", email |-> "a@x.org", preferences |-> << >>]>>,
     <<[id |-> 1, name |-> "ana", email |-> "a@x.org",
        preferences |-> <<[text |-> "rock"]>>],
       [id |-> 2, name |-> "ana", email |-> "b@x.org", preferences |-> << >>]>>}

InitUsers ==
    /\ spotify_tokens = EmptyDict
    /\ now = 0
    /\ pc = [w \in Threads |-> "idle"]
    /\ op = [w \in Threads |-> "none"]
    /\ frame = [w \in Threads |-> NoFrame]
    /\ start_time = [w \in Threads |-> NoTime]
    /\ due = [w \in Threads |-> NoTime]
    /\ opened = [w \in Threads |-> 0]
    /\ result = [w \in Threads |-> NoResult]
    /\ users \in StoredUsers \cup {<< >>}
    /\ file = IF users = << >> THEN Missing ELSE Written(users, "indented")
    /\ seen = [w \in Threads |-> NotSeen]
    /\ unblocked = [w \in Threads |-> NotUnblocked]

\* The worker has served no request.
First(w) == pc[w] = "idle"

UserStore(w) ==
    \/ /\ First(w)
       /\ \/ \E user \in UserInputs : CallCreateUser(w, user)
          \/ \E user_id \in UserIds, user \in UserInputs : CallUpdateUser(w, user_id, user)
          \/ \E user_id \in UserIds : CallDeleteUser(w, user_id)
          \/ \E user_id \in UserIds : CallGetUser(w, user_id)
          \/ CallGetUserList(w)
    \/ CheckFileIntegrity(w)
    \/ CreateUserSteps(w)
    \/ UpdateUserSteps(w)
    \/ DeleteUserSteps(w)
    \/ ReadUsersSteps(w)

NextUsers == \E w \in Threads : UserStore(w)

SpecUsers == InitUsers /\ [][NextUsers]_vars

\* ------------------------------------------------------------- SpecPrefs
\* One add_preferences request on one worker; on the other the callbacks
\* and then, once a credential is stored, one request to update_user,
\* delete_user, add_preferences, get_user or get_user_list; the clock; on a
\* users.json that create_user has written.

InitPrefs ==
    /\ spotify_tokens = EmptyDict
    /\ now = 0
    /\ pc = [w \in Threads |-> "idle"]
    /\ op = [w \in Threads |-> "none"]
    /\ frame = [w \in Threads |-> NoFrame]
    /\ start_time = [w \in Threads |-> NoTime]
    /\ due = [w \in Threads |-> NoTime]
    /\ opened = [w \in Threads |-> 0]
    /\ result = [w \in Threads |-> NoResult]
    /\ users \in StoredUsers
    /\ file = Written(users, "indented")
    /\ seen = [w \in Threads |-> NotSeen]
    /\ unblocked = [w \in Threads |-> NotUnblocked]

\* The token endpoint's answers in SpecPrefs.
PrefsTokenResponses ==
    {r \in TokenResponses : r.status # 200 \/ Get(r.body, "access_token") = "tok1"}

\* The ids of the requests of SpecPrefs: those StoredUsers holds.
StoredIds == 1 .. MaxUsers

Attacher(w) ==
    \/ /\ First(w)
       /\ \E user_id \in StoredIds : CallAddPreferences(w, user_id)
    \/ AcquireToken(w)
    \/ AddPreferencesSteps(w)
    \/ Check(w)
    \/ GetUser(w)
    \/ UpdateUserSteps(w)

\* The worker has served nothing but callbacks.
OnlyCallbacks(w) == op[w] \in {"none", "callback"}

Other(w) ==
    \/ /\ OnlyCallbacks(w)
       /\ \E code \in Codes : CallCallback(w, code)
    \/ \E response \in PrefsTokenResponses : Post(w, response)
    \/ Assign(w)
    \/ Return(w)
    \/ /\ OnlyCallbacks(w)
       /\ ~IsEmpty(spotify_tokens)
       /\ \/ \E user_id \in StoredIds, user \in UserInputs : CallUpdateUser(w, user_id, user)
          \/ \E user_id \in StoredIds : CallDeleteUser(w, user_id)
          \/ \E user_id \in StoredIds : CallAddPreferences(w, user_id)
          \/ \E user_id \in StoredIds : CallGetUser(w, user_id)
          \/ CallGetUserList(w)
    \/ IfEmpty(w)
    \/ AddPreferencesSteps(w)
    \/ Check(w)
    \/ ReadUsersSteps(w)
    \/ UpdateUserSteps(w)
    \/ DeleteUserSteps(w)

NextPrefs ==
    \/ Attacher("w1")
    \/ Other("w2")
    \/ Tick

SpecPrefs == InitPrefs /\ [][NextPrefs]_vars

\* ------------------------------------------------------------ SpecSerial
\* The handlers of the user store on one worker, each request run to
\* completion before the next arrives, from a missing users.json and with a
\* credential stored.

InitSerial ==
    /\ spotify_tokens \in {NewCredential(EmptyDict, body) : body \in OkBodies}
    /\ now = 0
    /\ pc = [w \in Threads |-> "idle"]
    /\ op = [w \in Threads |-> "none"]
    /\ frame = [w \in Threads |-> NoFrame]
    /\ start_time = [w \in Threads |-> NoTime]
    /\ due = [w \in Threads |-> NoTime]
    /\ opened = [w \in Threads |-> 0]
    /\ result = [w \in Threads |-> NoResult]
    /\ file = Missing
    /\ users = << >>
    /\ seen = [w \in Threads |-> NotSeen]
    /\ unblocked = [w \in Threads |-> NotUnblocked]

\* The worker that serves the requests of SpecSerial.
SerialWorker == "w1"

Serial(w) ==
    \/ \E user \in UserInputs : CallCreateUser(w, user)
    \/ \E user_id \in UserIds, user \in UserInputs : CallUpdateUser(w, user_id, user)
    \/ \E user_id \in UserIds : CallDeleteUser(w, user_id)
    \/ \E user_id \in UserIds : CallAddPreferences(w, user_id)
    \/ \E user_id \in UserIds : CallGetUser(w, user_id)
    \/ CallGetUserList(w)
    \/ IfEmpty(w)
    \/ AddPreferencesSteps(w)
    \/ CheckFileIntegrity(w)
    \/ CreateUserSteps(w)
    \/ UpdateUserSteps(w)
    \/ DeleteUserSteps(w)
    \/ ReadUsersSteps(w)

NextSerial == Serial(SerialWorker)

SpecSerial == InitSerial /\ [][NextSerial]_vars

\* ------------------------------------------------------- claims on Spec

\* The credential of an exchange answered with token_data.
Credential(token_data) ==
    [access_token |-> token_data["access_token"],
     refresh_token |-> IF "refresh_token" \in DOMAIN token_data
                       THEN token_data["refresh_token"] ELSE None,
     expires_in |-> token_data["expires_in"]]

IsCredential(d) == DOMAIN d = {"access_token", "refresh_token", "expires_in"}

Returned(w) == op[w] = "get_spotify_token" /\ result[w].status = 200

\* The request of w is answered in this step.
Answered(w) == pc[w] # "done" /\ pc'[w] = "done"

\* get_spotify_token returns in this step (line 329), to the client or to
\* the handler that called it, and the token it returns.
TokenReturned(w) == pc[w] = "read" /\ pc'[w] # "read"
ReturnedToken(w) ==
    IF op[w] = "get_spotify_token" THEN result'[w].body ELSE frame'[w].access_token

\* C1 (as stated): once a credential is stored, all get_spotify_token calls
\* return one and the same token.
C1_SameTokenForever ==
    \A v, w \in Threads :
        Returned(v) /\ Returned(w) => result[v].body = result[w].body

\* C1 (amended): every get_spotify_token call that returns, returns the
\* access_token the store holds at the moment of the read; so calls differ
\* only when a successful callback replaced the credential in between.
C1_ReturnsStoredToken ==
    [][\A w \in Threads :
          /\ TokenReturned(w)
               => /\ ~IsEmpty(spotify_tokens)
                  /\ ReturnedToken(w) = spotify_tokens["access_token"]
                  /\ spotify_tokens' = spotify_tokens
          /\ (Answered(w) /\ op[w] = "get_spotify_token" /\ result'[w].status = 200)
               => TokenReturned(w)]_vars

C1_Witness ==
    /\ \A w \in Threads : Returned(w) /\ result[w].body = spotify_tokens["access_token"]
    /\ \E w \in Threads : seen[w] = "empty"
    /\ \E w \in Threads : seen[w] \in Tokens

\* C2 (as stated): a callback that fills the store while a request polls
\* within its timeout makes the request leave the loop within one polling
\* interval of the write and return the stored access_token; the request is
\* not answered 408.
C2_WithinOneInterval ==
    [][\A w \in Threads :
          unblocked[w] # NotUnblocked
          => /\ InLoop(w)' => now' <= unblocked[w].at + PollInterval * TicksPerSecond
             /\ (TokenReturned(w) \/ Answered(w))
                  => /\ TokenReturned(w)
                     /\ ReturnedToken(w) = spotify_tokens["access_token"]]_vars

\* C2 (amended): the request leaves the loop at its next test of the store
\* (line 319): after the sleep it is in and the statements around it, each
\* late by at most MaxOverrun; it returns the access_token the store holds
\* when line 327 reads it.  Only a request that was between the test of line
\* 319 and that of line 320 when the store was filled can still be answered
\* 408, when line 320 runs later than Timeout after the start.
C2_UnblocksWaiter ==
    [][\A w \in Threads :
          unblocked[w] # NotUnblocked
          => /\ InLoop(w)' =>
                  now' <= unblocked[w].at + PollInterval * TicksPerSecond
                            + (IF unblocked[w].pc = "timeout" THEN 3 ELSE 2) * MaxOverrun
             /\ (InLoop(w)' /\ unblocked[w].pc = "while") =>
                  now' <= unblocked[w].at + MaxOverrun
             /\ (TokenReturned(w) \/ Answered(w)) =>
                  \/ /\ TokenReturned(w)
                     /\ ReturnedToken(w) = spotify_tokens["access_token"]
                     /\ Answered(w) => result'[w].status = 200
                  \/ /\ result'[w].status = 408
                     /\ unblocked[w].pc = "timeout"
                     /\ pc[w] = "timeout"
                     /\ result'[w].waited > Timeout * TicksPerSecond]_vars

C2_Witness ==
    \E w \in Threads :
        /\ unblocked[w].at >= Timeout * TicksPerSecond
        /\ unblocked[w].pc = "sleep"
        /\ now > unblocked[w].at
        /\ pc[w] = "read"
        /\ op[w] = "get_spotify_token"

\* C3 (as stated): a request that waits on an empty store is answered 408 no
\* earlier than Timeout and no later than Timeout + PollInterval after its
\* wait began.
C3_TimeoutWindow ==
    \A w \in Threads :
        result[w].status = 408
        => /\ Timeout * TicksPerSecond <= result[w].waited
           /\ result[w].waited <= (Timeout + PollInterval) * TicksPerSecond

\* C3 (amended): the 408 comes later than Timeout after the wait began, at
\* the first run of line 320 after that; the run of line 320 before it was
\* within Timeout, so the 408 comes no later than Timeout + PollInterval plus
\* what the sleep and the two tests after it are late, and no request polls
\* longer.
C3_TimeoutAfterLastPoll ==
    \A w \in Threads :
        /\ InLoop(w) =>
             now - start_time[w] <= (Timeout + PollInterval) * TicksPerSecond + 3 * MaxOverrun
        /\ result[w].status = 408
             => /\ Timeout * TicksPerSecond < result[w].waited
                /\ result[w].waited <= (Timeout + PollInterval) * TicksPerSecond + 3 * MaxOverrun

C3_Witness ==
    \E w \in Threads :
        /\ result[w].status = 408
        /\ seen[w] = "empty"
        /\ result[w].waited < (Timeout + PollInterval) * TicksPerSecond
        /\ IsEmpty(spotify_tokens)

\* C4: a callback answered non-200 by the token endpoint never writes the
\* store, and it is answered with the upstream status code.  (The store is
\* never written; the status is the upstream's only when the body of the
\* answer is a JSON document.)
C4_FailedCallbackKeepsStore ==
    [][\A w \in Threads, response \in TokenResponses :
          (Post(w, response) /\ response.status \notin {0, 200})
          => /\ spotify_tokens' = spotify_tokens
             /\ pc'[w] = "done"
             /\ result'[w].status = response.status]_vars

\* C5 (as stated): a request that finds a credential at line 312 returns that
\* credential's access_token.
C5_ReturnsSeenToken ==
    \A w \in Threads :
        (seen[w] \in Tokens /\ pc[w] = "done" /\ op[w] = "get_spotify_token")
        => result[w].status = 200 /\ result[w].body = seen[w]

\* C5 (amended): a request that finds a credential at line 312 opens no
\* authorization URL, never polls or sleeps, and returns the access_token
\* the store holds when line 327 reads it.
C5_FastPath ==
    [][\A w \in Threads :
          seen'[w] \in Tokens
          => /\ opened'[w] = 0
             /\ start_time'[w] = NoTime
             /\ pc'[w] \notin {"open", "while", "timeout", "sleep"}
             /\ TokenReturned(w) => ReturnedToken(w) = spotify_tokens["access_token"]
             /\ (Answered(w) /\ op[w] = "get_spotify_token")
                  => TokenReturned(w) /\ result'[w].status = 200]_vars

C5_Witness ==
    \E w \in Threads :
        /\ seen[w] \in Tokens
        /\ Returned(w)
        /\ result[w].body = seen[w]
        /\ opened[w] = 0

\* C6: the store is one slot, empty or one credential; the only step that
\* changes it is the assignment of a callback whose exchange was answered
\* 200, and it leaves in the store exactly the fields of that exchange's
\* response, a missing refresh_token as None; a callback answered 200
\* replies the credential the store holds at that moment, its own or the
\* one a concurrent callback has put in its place.
C6_FullReplace ==
    [][/\ IsEmpty(spotify_tokens') \/ IsCredential(spotify_tokens')
       /\ spotify_tokens' # spotify_tokens
            => \E w \in Threads :
                 /\ op[w] = "callback" /\ pc[w] = "assign" /\ pc'[w] = "return"
                 /\ frame[w].response.status = 200
                 /\ spotify_tokens' = Credential(frame[w].response.body)
       /\ \A w \in Threads :
            (Answered(w) /\ op[w] = "callback" /\ result'[w].status = 200)
            => /\ result'[w].cred = spotify_tokens
               /\ IsCredential(spotify_tokens)
               /\ spotify_tokens' = spotify_tokens]_vars

C6_Witness ==
    \E v, w \in Threads :
        /\ pc[v] = "return"
        /\ frame[v].response.body["access_token"] = "tok1"
        /\ spotify_tokens = [access_token |-> "tok2", refresh_token |-> None,
                             expires_in |-> 3600]
        /\ op[w] = "callback" /\ result[w].status = 200
        /\ result[w].cred = spotify_tokens

SumOpened == opened["w1"] + opened["w2"]

\* C7: every request that finds the store empty opens the authorization URL
\* itself: the URLs opened are as many as the requests that found it empty.
C7_EveryCallerOpens ==
    /\ SumOpened + Cardinality({w \in Threads : pc[w] = "open"})
         = Cardinality({w \in Threads : seen[w] = "empty"})
    /\ \A w \in Threads : opened[w] <= 1

C7_Witness ==
    /\ \A w \in Threads : InLoop(w) /\ opened[w] = 1
    /\ IsEmpty(spotify_tokens)

\* ------------------------------------------------ claims on the user store

\* The list `before` with one {"track_info": ...} entry appended to the
\* preferences of the first record that has user_id.
WithEntry(before, user_id, track_info) ==
    [before EXCEPT ![IndexOf(before, user_id)].preferences =
        Append(@, [track_info |-> track_info])]

\* C8 (SpecPrefs): an add_preferences request that is answered 200 leaves in
\* the store what the store held when the request wrote it, with exactly one
\* track_info entry appended to the target's preferences; a request answered
\* otherwise leaves the store unchanged; the request writes the store only
\* after the token, the track lookup and the user were there.
C8_AppendsOneEntry ==
    [][\A w \in Threads :
          (op[w] = "add_preferences" /\ pc'[w] # pc[w])
          => /\ (Answered(w) /\ result'[w].status = 200)
                  => /\ IndexOf(frame[w].before, frame[w].user_id) # 0
                     /\ CanRead'
                     /\ users' = WithEntry(frame[w].before, frame[w].user_id,
                                           frame[w].track_info)
             /\ (Answered(w) /\ result'[w].status # 200) => users' = users
             /\ users' # users
                  => /\ pc[w] \in {"update_open", "update_dump"}
                     /\ frame[w].access_token # None]_vars

\* C9 (SpecUsers): a create_user request whose email a stored user holds is
\* answered 409 and leaves the store unchanged; any other create_user
\* request is answered 200 and leaves in the store what the store held when
\* the request wrote it, with exactly one record added, that of the request.
C9_CreateOrConflict ==
    [][\A w \in Threads :
          (Answered(w) /\ op[w] = "create_user")
          => \/ /\ result'[w].status = 409
                /\ EmailTaken(users, frame[w].user.email)
                /\ users' = users
             \/ /\ result'[w].status = 200
                /\ ~EmailTaken(frame[w].before, frame[w].user.email)
                /\ CanRead'
                /\ Len(users') = Len(frame[w].before) + 1
                /\ SubSeq(users', 1, Len(frame[w].before)) = frame[w].before
                /\ users'[Len(users')].email = frame[w].user.email]_vars

\* The ids of a list of records, in order.
Ids(us) == [i \in 1 .. Len(us) |-> us[i].id]

\* C10 (SpecSerial): with the requests run one after the other, the records
\* of the store have pairwise distinct ids at all times; a create_user
\* answered 200 adds the highest id of the store plus one, 1 on an empty
\* store; a delete_user answered 200 removes one id; no other step changes
\* the ids of the store as the request found it, and get_user and
\* get_user_list leave the store as it is.
C10_DistinctIds ==
    [][/\ \A i, j \in 1 .. Len(users') : i # j => users'[i].id # users'[j].id
       /\ \A w \in Threads :
            (Answered(w) /\ result'[w].status = 200)
            => LET ids == Ids(frame[w].before) IN
               CASE op[w] \in {"get_user", "get_user_list"} -> users' = users
                 [] op[w] = "create_user" ->
                      Ids(users') = Append(ids,
                          IF ids = << >> THEN 1
                          ELSE 1 + MaxOf({ids[i] : i \in 1 .. Len(ids)}))
                 [] op[w] = "delete_user" ->
                      /\ Len(users') = Len(ids) - 1
                      /\ \A i \in 1 .. Len(users') :
                           \E j \in 1 .. Len(ids) : users'[i].id = ids[j]
                      /\ \A i \in 1 .. Len(users') : users'[i].id # frame[w].user_id
                 [] OTHER -> Ids(users') = ids]_vars

C10_Witness ==
    \E w \in Threads :
        /\ pc[w] = "done"
        /\ op[w] = "create_user"
        /\ result[w].status = 200
        /\ Ids(users) = <<2, 3>>

====
